---- MODULE Spec2Model ----
(***************************************************************************)
(* A model of the zwift-training workout compilers:                        *)
(*   create_workout.py   free text  -> .zwo segments (build_workout)       *)
(*   compile_workout.py  plan tree  -> .zwo segments (compile_plan)        *)
(*                                                                         *)
(* Texts are sequences of one-character strings; the regular expressions   *)
(* of the source are translated to matchers over those sequences, with     *)
(* Python's leftmost / greedy / ordered-alternative semantics.             *)
(* Three code points outside ASCII are written as the elements "times"     *)
(* (U+00D7), "prime" (U+2032) and "endash" (U+2013).                       *)
(*                                                                         *)
(* Numbers: a float read from the text is an exact decimal [n, d] (n/d, d  *)
(* a power of ten); a power ratio is a rational [n, d]; a value formatted  *)
(* with :.4f is an integer number of ten-thousandths.                      *)
(***************************************************************************)
EXTENDS Integers, Sequences, FiniteSets, TLC

\* ------------------------------------------------------------------------
\* Characters
\* ------------------------------------------------------------------------

DIGITS == <<"0", "1", "2", "3", "4", "5", "6", "7", "8", "9">>

Digit == {DIGITS[i] : i \in 1..10}

DigitVal(c) == (CHOOSE i \in 1..10 : DIGITS[i] = c) - 1

UpperToLower ==
    [A |-> "a", B |-> "b", C |-> "c", D |-> "d", E |-> "e", F |-> "f",
     G |-> "g", H |-> "h", I |-> "i", J |-> "j", K |-> "k", L |-> "l",
     M |-> "m", N |-> "n", O |-> "o", P |-> "p", Q |-> "q", R |-> "r",
     S |-> "s", T |-> "t", U |-> "u", V |-> "v", W |-> "w", X |-> "x",
     Y |-> "y", Z |-> "z"]

LowerCh(c) == IF c \in DOMAIN UpperToLower THEN UpperToLower[c] ELSE c

\* str.lower()
Lower(t) == [i \in 1..Len(t) |-> LowerCh(t[i])]

Letter == DOMAIN UpperToLower \cup {UpperToLower[c] : c \in DOMAIN UpperToLower}

\* the classes \w, \s, [x times], [prime '], [endash -]
IsWord(c) == c \in Letter \cup Digit \cup {"_"}

Whitespace == {" ", "\t", "\n"}

Times == {"x", "times"}

Tick == {"prime", "'"}

Dash == {"endash", "-"}

\* ------------------------------------------------------------------------
\* Regular expressions.  A pattern is a tree of the nodes below.  The
\* matcher follows every way the pattern can match at once: a thread is
\* [rank, s, e, caps], the match starting at s and having come to e (the
\* span <<s, e>> covers t[s] .. t[e - 1], positions are 1-based), caps the
\* spans of the groups (<<>> for a group that took no part) and rank the
\* choices taken so far: the start position, then at each x|y the number of
\* the alternative and at each x* how many characters short of the longest
\* run it stopped.  Python's backtracking search returns the match of the
\* least rank, in dictionary order: leftmost start, alternatives in order,
\* * + ? greedy.
\* ------------------------------------------------------------------------

\* [...] : one character of S
Ch(S) == [op |-> "in", set |-> S, neg |-> FALSE]

\* [^...] : one character not in S
NotCh(S) == [op |-> "in", set |-> S, neg |-> TRUE]

\* a literal string, given as its characters
Word(s) == [op |-> "lit", s |-> s]

\* xyz : the items one after another
Cat(items) == [op |-> "cat", items |-> items]

\* x|y|z
Alt(alts) == [op |-> "alt", alts |-> alts]

\* x* , x one character class
Star(x) == [op |-> "star", x |-> x]

\* x+
Plus(x) == Cat(<<x, Star(x)>>)

\* x?
Opt(x) == Alt(<<x, Cat(<<>>)>>)

\* (x) , the n-th group
Grp(n, x) == [op |-> "grp", n |-> n, x |-> x]

\* \b
WordB == [op |-> "b"]

\* \b between t[i-1] and t[i]
WordBoundary(t, i) ==
    (i > 1 /\ i - 1 <= Len(t) /\ IsWord(t[i - 1])) # (i >= 1 /\ i <= Len(t) /\ IsWord(t[i]))

\* c is in the class S; under re.IGNORECASE (ic) its lower case may be
InClass(c, S, ic) == c \in S \/ (ic /\ LowerCh(c) \in S)

\* c matches the class node x
Fits(c, x, ic) == InClass(c, x.set, ic) # x.neg

\* the position after the longest run of characters from i on that match x
RunEnd(t, i, x, ic) ==
    CHOOSE j \in i..(Len(t) + 1) :
        /\ j = Len(t) + 1 \/ ~Fits(t[j], x, ic)
        /\ \A k \in i..(j - 1) : Fits(t[k], x, ic)

\* the threads, each having taken choice k
Ranked(threads, k) == {[th EXCEPT !.rank = Append(th.rank, k)] : th \in threads}

\* the thread th after x* : the longest run first, down to no character
StarOf(t, th, run) ==
    {[th EXCEPT !.e = j, !.rank = Append(th.rank, run - j)] : j \in (th.e)..run}

RECURSIVE Run(_, _, _, _)
RECURSIVE RunCat(_, _, _, _, _)

\* the threads that come out of the node n, for the threads going in
Run(n, t, threads, ic) ==
    CASE n.op = "in" ->
           {[th EXCEPT !.e = th.e + 1] :
               th \in {x \in threads : x.e <= Len(t) /\ Fits(t[x.e], n, ic)}}
      [] n.op = "lit" ->
           {[th EXCEPT !.e = th.e + Len(n.s)] :
               th \in {x \in threads :
                          /\ x.e + Len(n.s) - 1 <= Len(t)
                          /\ \A k \in 1..Len(n.s) : InClass(t[x.e + k - 1], {n.s[k]}, ic)}}
      [] n.op = "b" -> {th \in threads : WordBoundary(t, th.e)}
      [] n.op = "star" ->
           UNION {StarOf(t, th, RunEnd(t, th.e, n.x, ic)) : th \in threads}
      [] n.op = "cat" ->
           RunCat(n.items, 1, t, threads, ic)
      [] n.op = "alt" ->
           UNION {Run(n.alts[k], t, Ranked(threads, k), ic) : k \in 1..Len(n.alts)}
      [] n.op = "grp" ->
           {[th EXCEPT !.caps[n.n] = <<th.caps[n.n][1], th.e>>] :
               th \in Run(n.x, t, {[x EXCEPT !.caps[n.n] = <<x.e, 0>>] : x \in threads}, ic)}

\* items[k], items[k + 1], ... one after another; no thread left ends it
RunCat(items, k, t, threads, ic) ==
    IF k > Len(items) \/ threads = {} THEN threads
    ELSE RunCat(items, k + 1, t, Run(items[k], t, threads, ic), ic)

\* rank a comes before rank b in dictionary order
Before(a, b) ==
    \E k \in 1..Len(a) :
        /\ k <= Len(b)
        /\ a[k] < b[k]
        /\ \A j \in 1..(k - 1) : a[j] = b[j]

NoMatch == [ok |-> FALSE, s |-> 0, e |-> 0, caps |-> <<>>]

\* the match of the thread th
MatchOf(th) == [ok |-> TRUE, s |-> th.s, e |-> th.e, caps |-> th.caps]

\* the match the backtracking search comes to first, None (NoMatch) if the
\* pattern matches nowhere
First(threads) ==
    IF threads = {} THEN NoMatch
    ELSE MatchOf(CHOOSE th \in threads :
                     \A other \in threads \ {th} : Before(th.rank, other.rank))

\* no group has taken part yet (no pattern here has more than six)
NoGroups == << <<>>, <<>>, <<>>, <<>>, <<>>, <<>> >>

\* a thread for every start position from i on
Starts(t, i) ==
    {[rank |-> <<j>>, s |-> j, e |-> j, caps |-> NoGroups] : j \in i..(Len(t) + 1)}

\* pattern.search(text), scanning from position i
Search(p, t, i, ic) == First(Run(p, t, Starts(t, i), ic))

\* where the scan goes on after the match m
After(m) == IF m.e > m.s THEN m.e ELSE m.e + 1

\* the matches after the match m, if m is one
RECURSIVE FindAll(_, _, _, _)
Rest(p, t, m, ic) ==
    IF m.ok THEN <<m>> \o FindAll(p, t, After(m), ic) ELSE <<>>

\* re.findall / pattern.finditer: the matches left to right, not overlapping
FindAll(p, t, i, ic) == Rest(p, t, Search(p, t, i, ic), ic)

\* match.group(g) as characters; <<>> for a group that took no part (every
\* group of the patterns below holds at least one character when it does)
Group(t, m, g) ==
    IF m.caps[g] = <<>> THEN <<>> ELSE SubSeq(t, m.caps[g][1], m.caps[g][2] - 1)

\* a or b
Or(a, b) == IF a # <<>> THEN a ELSE b

\* \s*
Spaces == Star(Ch(Whitespace))

\* \d+
Digits == Plus(Ch(Digit))

\* \d+(?:\.\d+)?   and   [0-9]+(?:\.\d+)?
Number == Cat(<<Digits, Opt(Cat(<<Ch({"."}), Digits>>))>>)

\* (?:min|minutes|m)
MinuteUnits ==
    Alt(<<Word(<<"m", "i", "n">>), Word(<<"m", "i", "n", "u", "t", "e", "s">>), Word(<<"m">>)>>)

\* (?:hour|hours|hr|h)
HourUnits ==
    Alt(<<Word(<<"h", "o", "u", "r">>), Word(<<"h", "o", "u", "r", "s">>),
          Word(<<"h", "r">>), Word(<<"h">>)>>)

\* (?:\s*[endash -]\s*(\d+))? , the group being the n-th
DashDigits(n) == Opt(Cat(<<Spaces, Ch(Dash), Spaces, Grp(n, Digits)>>))

\* ------------------------------------------------------------------------
\* float() and int()
\* ------------------------------------------------------------------------

RECURSIVE DigitsValue(_, _)
\* the number written by the digits of s, dots skipped; acc carries the value
DigitsValue(s, acc) ==
    IF s = <<>> THEN acc
    ELSE IF Head(s) = "." THEN DigitsValue(Tail(s), acc)
    ELSE DigitsValue(Tail(s), 10 * acc + DigitVal(Head(s)))

RECURSIVE Pow10(_)
Pow10(k) == IF k = 0 THEN 1 ELSE 10 * Pow10(k - 1)

DotCount(s) == Cardinality({i \in 1..Len(s) : s[i] = "."})

DotAt(s) == CHOOSE i \in 1..Len(s) : s[i] = "."

\* float(s) of a string of digits and dots: [ok, n, d] with value n/d;
\* ok is FALSE where float() raises ValueError
float(s) ==
    IF DotCount(s) > 1 \/ DotCount(s) = Len(s)
    THEN [ok |-> FALSE, n |-> 0, d |-> 1]
    ELSE [ok |-> TRUE,
          n  |-> DigitsValue(s, 0),
          d  |-> IF DotCount(s) = 0 THEN 1 ELSE Pow10(Len(s) - DotAt(s))]

\* int(s) of a string of digits
int(s) == DigitsValue(s, 0)

\* int(x * per) of a non-negative decimal x
IntOfScaled(x, per) == (x.n * per) \div x.d

\* a decimal [n, d]
Decimal(x) == [n |-> x.n, d |-> x.d]

\* Optional values: None is <<>>, a value v is <<v>>
None == <<>>

Some(v) == <<v>>

\* a power ratio n/d
Ratio(n, d) == [n |-> n, d |-> d]

RatioEq(x, y) == x.n * y.d = y.n * x.d


\* ------------------------------------------------------------------------
\* parse_total_minutes
\* ------------------------------------------------------------------------

\* (\d+(?:\.\d+)?)\s*[endash -]\s*(\d+(?:\.\d+)?)\s*(?:units)\b
RangePattern(units) ==
    Cat(<<Grp(1, Number), Spaces, Ch(Dash), Spaces, Grp(2, Number), Spaces, units, WordB>>)

\* \b(\d+(?:\.\d+)?)\s*(?:units)\b
SinglePattern(units) == Cat(<<WordB, Grp(1, Number), Spaces, units, WordB>>)

Last(s) == s[Len(s)]

\* if found: int(float(found[-1] group g) * per), else nothing to add
LastValue(t, found, g, per) ==
    IF found = <<>> THEN 0 ELSE IntOfScaled(float(Group(t, Last(found), g)), per)

\* v or None
OrNone(v) == IF v = 0 THEN None ELSE Some(v)

\* int | None
parse_total_minutes(text) ==
    OrNone(  LastValue(Lower(text), FindAll(RangePattern(MinuteUnits), Lower(text), 1, FALSE), 2, 1)
           + LastValue(Lower(text), FindAll(SinglePattern(MinuteUnits), Lower(text), 1, FALSE), 1, 1)
           + LastValue(Lower(text), FindAll(RangePattern(HourUnits), Lower(text), 1, FALSE), 2, 60)
           + LastValue(Lower(text), FindAll(SinglePattern(HourUnits), Lower(text), 1, FALSE), 1, 60))

\* ------------------------------------------------------------------------
\* parse_tss, parse_ftp, parse_cooldown_minutes, parse_zone: re.search
\* ------------------------------------------------------------------------

\* \bkey\b[^0-9]*([0-9]+(?:\.\d+)?)
KeyPattern(key) == Cat(<<WordB, Word(key), WordB, Star(NotCh(Digit)), Grp(1, Number)>>)

\* float(match.group(1)) unless the match is None
FloatOfMatch(t, match) ==
    IF match.ok THEN Some(Decimal(float(Group(t, match, 1)))) ELSE None

\* float | None, a float being a decimal [n, d]
parse_tss(text) ==
    FloatOfMatch(Lower(text), Search(KeyPattern(<<"t", "s", "s">>), Lower(text), 1, FALSE))

parse_ftp(text) ==
    FloatOfMatch(Lower(text), Search(KeyPattern(<<"f", "t", "p">>), Lower(text), 1, FALSE))

\* (\d+(?:\.\d+)?)\s*(?:min|minutes|m)\s*(?:cooldown|cool down)
CooldownPattern ==
    Cat(<<Grp(1, Number), Spaces, MinuteUnits, Spaces,
          Alt(<<Word(<<"c", "o", "o", "l", "d", "o", "w", "n">>),
                Word(<<"c", "o", "o", "l", " ", "d", "o", "w", "n">>)>>)>>)

\* int(float(match.group(1))) unless the match is None
IntOfMatch(t, match) ==
    IF match.ok THEN Some(IntOfScaled(float(Group(t, match, 1)), 1)) ELSE None

\* int | None
parse_cooldown_minutes(text) ==
    IntOfMatch(Lower(text), Search(CooldownPattern, Lower(text), 1, FALSE))

\* \b(z[1-6])\b
ZonePattern ==
    Cat(<<WordB, Grp(1, Cat(<<Ch({"z"}), Ch({"1", "2", "3", "4", "5", "6"})>>)), WordB>>)

\* the number k of the zone "zk" unless the match is None
ZoneOfMatch(t, match) ==
    IF match.ok THEN Some(DigitVal(Group(t, match, 1)[2])) ELSE None

\* the zone's number 1..6 | None
parse_zone(text) == ZoneOfMatch(Lower(text), Search(ZonePattern, Lower(text), 1, FALSE))

\* ------------------------------------------------------------------------
\* parse_intervals
\* ------------------------------------------------------------------------

\* @dataclass IntervalBlock
IntervalBlock(repeat, on_seconds, on_power, off_seconds, off_power, on_power_low, on_power_high, cadence, cadence_resting) ==
    [repeat |-> repeat, on_seconds |-> on_seconds, on_power |-> on_power,
     off_seconds |-> off_seconds, off_power |-> off_power,
     on_power_low |-> on_power_low, on_power_high |-> on_power_high,
     off_power_low |-> None, off_power_high |-> None,
     cadence |-> cadence, cadence_resting |-> cadence_resting]

\* @dataclass SetBlock
SetBlock(repeat, interval, rest_between_sets_seconds) ==
    [repeat |-> repeat, interval |-> interval,
     rest_between_sets_seconds |-> rest_between_sets_seconds]

\* (rest cadence|cadence rest|rbi cadence)\s*(\d+)(?:\s*[endash -]\s*(\d+))?
RestCadencePattern ==
    Cat(<<Grp(1, Alt(<<Word(<<"r", "e", "s", "t", " ", "c", "a", "d", "e", "n", "c", "e">>),
                       Word(<<"c", "a", "d", "e", "n", "c", "e", " ", "r", "e", "s", "t">>),
                       Word(<<"r", "b", "i", " ", "c", "a", "d", "e", "n", "c", "e">>)>>)),
          Spaces, Grp(2, Digits), DashDigits(3)>>)

\* \bcadence\b\s*(\d+)(?:\s*[endash -]\s*(\d+))?
CadencePattern ==
    Cat(<<WordB, Word(<<"c", "a", "d", "e", "n", "c", "e">>), WordB,
          Spaces, Grp(1, Digits), DashDigits(2)>>)

\* int(match.group(g)) if the match is not None, else the initial None
CadenceOfMatch(t, match, g) == IF match.ok THEN Some(int(Group(t, match, g))) ELSE None

\* (\d+)\s*[x times]\s*\[\s*(\d+)\s*[x times]\s*(\d+)\s*[prime ']\s*
\* (?:@[^\]]+)?\s*(\d+)\s*[prime ']\s*rbi\s*\]\s*(\d+)\s*[prime ']\s*rbs
set_pattern ==
    Cat(<<Grp(1, Digits), Spaces, Ch(Times), Spaces, Ch({"["}), Spaces,
          Grp(2, Digits), Spaces, Ch(Times), Spaces,
          Grp(3, Digits), Spaces, Ch(Tick), Spaces,
          Opt(Cat(<<Ch({"@"}), Plus(NotCh({"]"}))>>)), Spaces,
          Grp(4, Digits), Spaces, Ch(Tick), Spaces, Word(<<"r", "b", "i">>), Spaces,
          Ch({"]"}), Spaces,
          Grp(5, Digits), Spaces, Ch(Tick), Spaces, Word(<<"r", "b", "s">>)>>)

\* (\d+)(?:\s*[endash -]\s*(\d+))?\s*[x times]\s*(\d+)\s*[prime ']\s*@\s*
\* ([0-9.]+)(?:\s*[endash -]\s*([0-9.]+))?\s*(%|percent|w|watts)?
interval_pattern ==
    Cat(<<Grp(1, Digits), DashDigits(2), Spaces, Ch(Times), Spaces,
          Grp(3, Digits), Spaces, Ch(Tick), Spaces, Ch({"@"}), Spaces,
          Grp(4, Plus(Ch(Digit \cup {"."}))),
          Opt(Cat(<<Spaces, Ch(Dash), Spaces, Grp(5, Plus(Ch(Digit \cup {"."})))>>)),
          Spaces,
          Opt(Grp(6, Alt(<<Word(<<"%">>), Word(<<"p", "e", "r", "c", "e", "n", "t">>),
                           Word(<<"w">>), Word(<<"w", "a", "t", "t", "s">>)>>)))>>)

\* the SetBlock of lines 133-151
SetBlockOfMatch(t, set_match, cadence_work, cadence_rest) ==
    SetBlock(int(Group(t, set_match, 1)),
             IntervalBlock(int(Group(t, set_match, 2)),
                           int(Group(t, set_match, 3)) * 60,
                           Some(Ratio(105, 100)),
                           int(Group(t, set_match, 4)) * 60,
                           Some(Ratio(5, 10)),
                           None, None, cadence_work, cadence_rest),
             int(Group(t, set_match, 5)) * 60)

\* match.group(6) or ("%" if "%" in match.group(0) else "")
UnitOfMatch(t, match) ==
    Or(Group(t, match, 6),
       IF \E k \in match.s..(match.e - 1) : t[k] = "%" THEN <<"%">> ELSE <<>>)

NoBlock == IntervalBlock(0, 0, None, 0, None, None, None, None, None)

\* lines 176-195: the block of the ratios on_power_low and on_power_high
BlockOfPowers(repeat, on_minutes, on_power_low, on_power_high, cadence_work, cadence_rest) ==
    IntervalBlock(repeat, on_minutes * 60,
                  IF RatioEq(on_power_low, on_power_high) THEN Some(on_power_low) ELSE None,
                  on_minutes * 60, Some(Ratio(5, 10)),
                  Some(on_power_low), Some(on_power_high), cadence_work, cadence_rest)

\* lines 162-195 on the values read from one match: [err, block]
IntervalOfValues(repeat, on_minutes, p_low, p_high, unit, ftp, cadence_work, cadence_rest) ==
    IF ~p_low.ok \/ ~p_high.ok
    THEN [err |-> "could not convert string to float", block |-> NoBlock]
    ELSE IF unit \in {<<"%">>, <<"p", "e", "r", "c", "e", "n", "t">>}
    THEN [err |-> "",
          block |-> BlockOfPowers(repeat, on_minutes,
                                  Ratio(p_low.n, p_low.d * 100), Ratio(p_high.n, p_high.d * 100),
                                  cadence_work, cadence_rest)]
    ELSE IF unit \in {<<"w">>, <<"w", "a", "t", "t", "s">>}
    THEN IF ftp = None \/ ftp[1].n = 0
         THEN [err |-> "FTP is required when using watt-based intervals", block |-> NoBlock]
         ELSE [err |-> "",
               block |-> BlockOfPowers(repeat, on_minutes,
                                       Ratio(p_low.n * ftp[1].d, p_low.d * ftp[1].n),
                                       Ratio(p_high.n * ftp[1].d, p_high.d * ftp[1].n),
                                       cadence_work, cadence_rest)]
    ELSE [err |-> "Could not determine interval units; use % of FTP or watts",
          block |-> NoBlock]

\* IntervalOfMatch taking the repeat from group 1 alone
IntervalOfMatch_first(t, match, ftp, cadence_work, cadence_rest) ==
    IntervalOfValues(int(Group(t, match, 1)),
                     int(Group(t, match, 3)),
                     float(Group(t, match, 4)),
                     float(Or(Group(t, match, 5), Group(t, match, 4))),
                     UnitOfMatch(t, match), ftp, cadence_work, cadence_rest)

\* the body of the for loop for one match: [err, block]
IntervalOfMatch(t, match, ftp, cadence_work, cadence_rest) ==
    IntervalOfValues(int(Or(Group(t, match, 2), Group(t, match, 1))),
                     int(Group(t, match, 3)),
                     float(Group(t, match, 4)),
                     float(Or(Group(t, match, 5), Group(t, match, 4))),
                     UnitOfMatch(t, match), ftp, cadence_work, cadence_rest)

RECURSIVE IntervalLoop(_, _, _, _, _, _)
\* the for loop: the blocks appended so far, or the first error raised
IntervalLoop(t, matches, ftp, cadence_work, cadence_rest, acc) ==
    IF matches = <<>> THEN [err |-> "", interval_blocks |-> acc, set_blocks |-> <<>>]
    ELSE LET r == IntervalOfMatch(t, Head(matches), ftp, cadence_work, cadence_rest)
         IN  IF r.err # "" THEN [err |-> r.err, interval_blocks |-> <<>>, set_blocks |-> <<>>]
             ELSE IntervalLoop(t, Tail(matches), ftp, cadence_work, cadence_rest,
                               Append(acc, r.block))

\* lines 131-197 once the cadences and set_match are known
IntervalsOfMatches(text, ftp, cadence_work, cadence_rest, set_match) ==
    IF set_match.ok
    THEN [err |-> "",
          interval_blocks |-> <<>>,
          set_blocks |-> <<SetBlockOfMatch(text, set_match, cadence_work, cadence_rest)>>]
    ELSE IntervalLoop(text, FindAll(interval_pattern, text, 1, TRUE), ftp,
                      cadence_work, cadence_rest, <<>>)

\* [err, interval_blocks, set_blocks]; err is the message of the ValueError
\* raised, "" when the lists are returned
parse_intervals(text, ftp) ==
    IntervalsOfMatches(text, ftp,
                       CadenceOfMatch(Lower(text),
                                      Search(CadencePattern, Lower(text), 1, FALSE), 1),
                       CadenceOfMatch(Lower(text),
                                      Search(RestCadencePattern, Lower(text), 1, FALSE), 2),
                       Search(set_pattern, text, 1, TRUE))


\* ------------------------------------------------------------------------
\* Formatting and the budget helpers of create_workout.py
\* ------------------------------------------------------------------------

\* f"{x:.4f}" of the ratio x, as ten-thousandths (round to nearest)
Fmt4(x) ==
    LET n == IF x.d < 0 THEN 0 - x.n ELSE x.n
        d == IF x.d < 0 THEN 0 - x.d ELSE x.d
    IN  (2 * n * 10000 + d) \div (2 * d)

ZONE_POWER == <<Ratio(55, 100), Ratio(65, 100), Ratio(75, 100),
                Ratio(90, 100), Ratio(105, 100), Ratio(120, 100)>>

STANDARD_COOLDOWN_SECONDS == 600

MIN_COOLDOWN_SECONDS == 300

Max(a, b) == IF a >= b THEN a ELSE b

Min(a, b) == IF a <= b THEN a ELSE b

\* standard_warmup without the short-workout rule
standard_warmup_long(total_minutes) ==
    << [tag |-> "Warmup", Duration |-> 600, PowerLow |-> 5000, PowerHigh |-> 7700],
       [tag |-> "FreeRide", Duration |-> 60, FlatRoad |-> 1, Cadence |-> 110],
       [tag |-> "SteadyState", Duration |-> 60, Power |-> 5000],
       [tag |-> "FreeRide", Duration |-> 60, FlatRoad |-> 1, Cadence |-> 110],
       [tag |-> "SteadyState", Duration |-> 60, Power |-> 5000] >>

\* create_workout.standard_warmup
standard_warmup(total_minutes) ==
    LET short == total_minutes # None /\ total_minutes[1] < 45
    IN  << [tag |-> "Warmup", Duration |-> IF short THEN 300 ELSE 600,
            PowerLow |-> 5000, PowerHigh |-> 7700],
           [tag |-> "FreeRide", Duration |-> 60, FlatRoad |-> 1, Cadence |-> 110],
           [tag |-> "SteadyState", Duration |-> 60, Power |-> 5000],
           [tag |-> "FreeRide", Duration |-> 60, FlatRoad |-> 1, Cadence |-> 110],
           [tag |-> "SteadyState", Duration |-> 60, Power |-> 5000] >>

cooldown_block(seconds) ==
    [tag |-> "Cooldown", Duration |-> seconds, PowerLow |-> 6500, PowerHigh |-> 4500]

RECURSIVE SumDurations(_)
\* sum(block["Duration"] for block in warmup)
SumDurations(blocks) ==
    IF blocks = <<>> THEN 0 ELSE Head(blocks).Duration + SumDurations(Tail(blocks))

RECURSIVE LongDiv(_, _, _)
\* floor(r * 10^k / den) for 0 <= r < den, digit by digit
LongDiv(r, den, k) ==
    IF k = 0 THEN 0
    ELSE ((r * 10) \div den) * Pow10(k - 1) + LongDiv((r * 10) % den, den, k - 1)

RECURSIVE SqrtBisect(_, _, _)
\* the largest v in lo..hi with (2v - 1)^2 <= f
SqrtBisect(f, lo, hi) ==
    IF lo >= hi THEN lo
    ELSE LET mid == (lo + hi + 1) \div 2
         IN  IF (2 * mid - 1) * (2 * mid - 1) <= f
             THEN SqrtBisect(f, mid, hi)
             ELSE SqrtBisect(f, lo, mid - 1)

\* max(0.45, min(1.1, sqrt(tss * 3600 / (duration_seconds * 100)))), as the
\* ten-thousandths that :.4f writes; tss is a decimal [n, d]
tss_to_intensity(tss, duration_seconds) ==
    IF duration_seconds <= 0 THEN 6500
    ELSE LET num == tss.n * 36
             den == tss.d * duration_seconds
         IN  IF num * 100 >= 121 * den THEN 11000
             ELSE IF num * 400 <= 81 * den THEN 4500
             ELSE LET n4 == 4 * num
                      f  == (n4 \div den) * Pow10(8) + LongDiv(n4 % den, den, 8)
                  IN  SqrtBisect(f, 4500, 11000)

RECURSIVE IntervalSeconds_on_only(_)
\* IntervalSeconds leaving the off time out
IntervalSeconds_on_only(blocks) ==
    IF blocks = <<>> THEN 0
    ELSE Head(blocks).repeat * Head(blocks).on_seconds + IntervalSeconds_on_only(Tail(blocks))

RECURSIVE IntervalSeconds(_)
\* the first loop of lines 246-247
IntervalSeconds(blocks) ==
    IF blocks = <<>> THEN 0
    ELSE Head(blocks).repeat * (Head(blocks).on_seconds + Head(blocks).off_seconds)
         + IntervalSeconds(Tail(blocks))

RECURSIVE SetSeconds(_)
\* the second loop of lines 248-252
SetSeconds(blocks) ==
    IF blocks = <<>> THEN 0
    ELSE Head(blocks).repeat
           * (Head(blocks).interval.repeat
                * (Head(blocks).interval.on_seconds + Head(blocks).interval.off_seconds)
              + Head(blocks).rest_between_sets_seconds)
         + SetSeconds(Tail(blocks))

\* cooldown_seconds of lines 242-243
initial_cooldown_seconds(cooldown_minutes) ==
    LET minutes == IF cooldown_minutes # None /\ cooldown_minutes[1] # 0
                   THEN cooldown_minutes[1]
                   ELSE STANDARD_COOLDOWN_SECONDS \div 60
    IN  Max(MIN_COOLDOWN_SECONDS, minutes * 60)

\* total_seconds as (total_minutes or 0) * 60: an unknown total becomes 0
total_seconds_zero(total_minutes) ==
    IF total_minutes # None THEN Some(total_minutes[1] * 60) ELSE Some(0)

\* total_seconds of line 254
total_seconds_of(total_minutes) ==
    IF total_minutes # None /\ total_minutes[1] # 0 THEN Some(total_minutes[1] * 60) ELSE None

\* base_seconds of lines 258 and 261
base_seconds_of(total, warmup, cooldown, intervals) ==
    total - warmup - cooldown - intervals

\* base_power of lines 265-270, as the ten-thousandths that :.4f writes
base_power_of(zone, tss, total) ==
    IF zone # None THEN Fmt4(ZONE_POWER[zone[1]])
    ELSE IF tss # None /\ tss[1].n # 0 /\ total # None /\ total[1] # 0
    THEN tss_to_intensity(tss[1], total[1])
    ELSE 6500

OptFmt4(x) == IF x = None THEN None ELSE Some(Fmt4(x[1]))

\* the IntervalsT element of one IntervalBlock (lines 289-310, 314-335)
IntervalsT(block) ==
    [tag |-> "IntervalsT", Repeat |-> block.repeat,
     OnDuration |-> block.on_seconds, OffDuration |-> block.off_seconds,
     OnPower |-> OptFmt4(block.on_power), OffPower |-> OptFmt4(block.off_power),
     PowerOnLow |-> OptFmt4(block.on_power_low), PowerOnHigh |-> OptFmt4(block.on_power_high),
     PowerOffLow |-> OptFmt4(block.off_power_low), PowerOffHigh |-> OptFmt4(block.off_power_high),
     Cadence |-> block.cadence, CadenceResting |-> block.cadence_resting]

RECURSIVE EmitIntervals(_)
\* lines 288-310
EmitIntervals(blocks) ==
    IF blocks = <<>> THEN <<>>
    ELSE <<IntervalsT(Head(blocks))>> \o EmitIntervals(Tail(blocks))

RECURSIVE EmitSetRepeats(_, _)
\* lines 313-340: for _ in range(set_block.repeat)
EmitSetRepeats(set_block, k) ==
    IF k <= 0 THEN <<>>
    ELSE << IntervalsT(set_block.interval),
            [tag |-> "SteadyState", Duration |-> set_block.rest_between_sets_seconds,
             Power |-> 5000] >>
         \o EmitSetRepeats(set_block, k - 1)

RECURSIVE EmitSets(_)
\* lines 312-340
EmitSets(blocks) ==
    IF blocks = <<>> THEN <<>>
    ELSE EmitSetRepeats(Head(blocks), Head(blocks).repeat) \o EmitSets(Tail(blocks))

\* the children of <workout> that lines 281-342 append
workout_segments(warmup, base_seconds, base_power, interval_blocks, set_blocks, cooldown_seconds) ==
    warmup
    \o (IF base_seconds > 0
        THEN <<[tag |-> "SteadyState", Duration |-> base_seconds, Power |-> base_power]>>
        ELSE <<>>)
    \o EmitIntervals(interval_blocks)
    \o EmitSets(set_blocks)
    \o <<cooldown_block(cooldown_seconds)>>

\* ------------------------------------------------------------------------
\* compile_workout.py.  A block is a record holding the keys the plan gives
\* it; a number of minutes is a decimal [n, d]; a power is
\*   [k |-> "zone", z]  a zone name       [k |-> "str"]   any other string
\*   [k |-> "pct", v]   {pct: v}          [k |-> "watts", v]  {watts: v}
\*   [k |-> "dict"]     any other dict    [k |-> "num", v]  a number, v a ratio
\*   [k |-> "list", lo, hi]  a list of two powers (None for a null element)
\* The optional cadence, cadence_rest and flat_road keys and the attributes
\* they give are left out.
\* ------------------------------------------------------------------------

Has(block, key) == key \in DOMAIN block

\* round(x) of n/d, d > 0: to the nearest, a tie to the even neighbour
Round(n, d) ==
    LET q == n \div d
        r == n % d
    IN  IF 2 * r < d THEN q
        ELSE IF 2 * r > d THEN q + 1
        ELSE IF q % 2 = 0 THEN q ELSE q + 1

\* to_seconds(block.get(key))
to_seconds(block, key) ==
    IF ~Has(block, key) THEN 0 ELSE Round(block[key].n * 60, block[key].d)

\* to_seconds(block.get(minutes_key)) or int(block.get(seconds_key, 0))
duration_of(block, minutes_key, seconds_key) ==
    IF to_seconds(block, minutes_key) # 0 THEN to_seconds(block, minutes_key)
    ELSE IF Has(block, seconds_key) THEN block[seconds_key]
    ELSE 0

PowerResult(e, low, high, is_range) ==
    [err |-> e, low |-> low, high |-> high, is_range |-> is_range]

RECURSIVE power_to_ratio(_, _, _)
\* power_to_ratio taking pct as tenths
power_to_ratio_tenths(value, ftp, field) ==
    IF value = None THEN PowerResult("", None, None, FALSE)
    ELSE LET v == value[1]
         IN  CASE v.k = "list" ->
                    LET lo == power_to_ratio(v.lo, ftp, field)
                        hi == power_to_ratio(v.hi, ftp, field)
                    IN  IF lo.err # "" THEN lo
                        ELSE IF hi.err # "" THEN hi
                        ELSE PowerResult("", lo.low, hi.low, TRUE)
               [] v.k = "zone" -> PowerResult("", Some(ZONE_POWER[v.z]), None, FALSE)
               [] v.k = "str" -> PowerResult("Unsupported power string for " \o field, None, None, FALSE)
               [] v.k = "pct" -> PowerResult("", Some(Ratio(v.v, 10)), None, FALSE)
               [] v.k = "watts" ->
                    IF ftp = None \/ ftp[1] = 0
                    THEN PowerResult("FTP required for watts in " \o field, None, None, FALSE)
                    ELSE PowerResult("", Some(Ratio(v.v, ftp[1])), None, FALSE)
               [] v.k = "dict" -> PowerResult("Unsupported power dict for " \o field, None, None, FALSE)
               [] v.k = "num" -> PowerResult("", Some(v.v), None, FALSE)

\* value is None or Some(power); ftp is None or Some(number)
power_to_ratio(value, ftp, field) ==
    IF value = None THEN PowerResult("", None, None, FALSE)
    ELSE LET v == value[1]
         IN  CASE v.k = "list" ->
                    LET lo == power_to_ratio(v.lo, ftp, field)
                        hi == power_to_ratio(v.hi, ftp, field)
                    IN  IF lo.err # "" THEN lo
                        ELSE IF hi.err # "" THEN hi
                        ELSE PowerResult("", lo.low, hi.low, TRUE)
               [] v.k = "zone" -> PowerResult("", Some(ZONE_POWER[v.z]), None, FALSE)
               [] v.k = "str" -> PowerResult("Unsupported power string for " \o field, None, None, FALSE)
               [] v.k = "pct" -> PowerResult("", Some(Ratio(v.v, 100)), None, FALSE)
               [] v.k = "watts" ->
                    IF ftp = None \/ ftp[1] = 0
                    THEN PowerResult("FTP required for watts in " \o field, None, None, FALSE)
                    ELSE PowerResult("", Some(Ratio(v.v, ftp[1])), None, FALSE)
               [] v.k = "dict" -> PowerResult("Unsupported power dict for " \o field, None, None, FALSE)
               [] v.k = "num" -> PowerResult("", Some(v.v), None, FALSE)

\* block.get(key) of a power key
GetPower(block, key) == IF Has(block, key) THEN Some(block[key]) ELSE None

\* block.get(key, default) of a number key
GetOr(block, key, default) == IF Has(block, key) THEN Some(block[key]) ELSE default

\* compile_workout.standard_warmup
plan_standard_warmup ==
    << [tag |-> "Warmup", Duration |-> 600, PowerLow |-> 5000, PowerHigh |-> 7700],
       [tag |-> "FreeRide", Duration |-> 60, FlatRoad |-> 1, Cadence |-> 110],
       [tag |-> "SteadyState", Duration |-> 60, Power |-> 5000],
       [tag |-> "FreeRide", Duration |-> 60, FlatRoad |-> 1, Cadence |-> 110],
       [tag |-> "SteadyState", Duration |-> 60, Power |-> 5000] >>

Emitted(segs) == [err |-> "", segs |-> segs]

Raised(e) == [err |-> e, segs |-> <<>>]

Capitalize(block_type) ==
    CASE block_type = "warmup" -> "Warmup"
      [] block_type = "cooldown" -> "Cooldown"
      [] block_type = "ramp" -> "Ramp"

\* lines 118-139
emit_ramp(block, ftp) ==
    LET duration == duration_of(block, "minutes", "seconds")
        p        == power_to_ratio(GetPower(block, "power"), ftp, "power")
        low      == IF p.is_range THEN p.low ELSE GetOr(block, "power_low", p.low)
        high     == IF p.is_range THEN p.high ELSE GetOr(block, "power_high", p.high)
    IN  IF duration <= 0 THEN Raised(block.type \o " requires minutes or seconds")
        ELSE IF p.err # "" THEN Raised(p.err)
        ELSE IF ~p.is_range /\ (low = None \/ high = None)
        THEN Raised(block.type \o " requires power_low/power_high or power range")
        ELSE IF low = None THEN Raised("power_low is required")
        ELSE IF high = None THEN Raised("power_high is required")
        ELSE Emitted(<<[tag |-> Capitalize(block.type), Duration |-> duration,
                        PowerLow |-> Fmt4(low[1]), PowerHigh |-> Fmt4(high[1])]>>)

\* lines 141-152
emit_steadystate(block, ftp) ==
    LET duration == duration_of(block, "minutes", "seconds")
        p        == power_to_ratio(GetPower(block, "power"), ftp, "power")
    IN  IF duration <= 0 THEN Raised("steady requires minutes or seconds")
        ELSE IF p.err # "" THEN Raised(p.err)
        ELSE IF p.low = None THEN Raised("steady requires power")
        ELSE Emitted(<<[tag |-> "SteadyState", Duration |-> duration, Power |-> Fmt4(p.low[1])]>>)

\* lines 154-164 and 207-212
emit_timed(block, tag, name) ==
    LET duration == duration_of(block, "minutes", "seconds")
    IN  IF duration <= 0 THEN Raised(name \o " requires minutes or seconds")
        ELSE Emitted(<<[tag |-> tag, Duration |-> duration]>>)

\* lines 166-205
emit_intervals(block, ftp) ==
    LET repeat      == IF Has(block, "repeat") THEN block.repeat ELSE 0
        on_seconds  == duration_of(block, "on_minutes", "on_seconds")
        off_seconds == duration_of(block, "off_minutes", "off_seconds")
        on          == power_to_ratio(GetPower(block, "on_power"), ftp, "on_power")
        off         == power_to_ratio(GetPower(block, "off_power"), ftp, "off_power")
    IN  IF repeat <= 0 THEN Raised("intervals requires repeat")
        ELSE IF on_seconds <= 0 \/ off_seconds <= 0 THEN Raised("intervals requires on/off duration")
        ELSE IF on.err # "" THEN Raised(on.err)
        ELSE IF off.err # "" THEN Raised(off.err)
        ELSE IF on.is_range /\ on.low = None THEN Raised("on_power_low is required")
        ELSE IF on.is_range /\ on.high = None THEN Raised("on_power_high is required")
        ELSE IF off.is_range /\ off.low = None THEN Raised("off_power_low is required")
        ELSE IF off.is_range /\ off.high = None THEN Raised("off_power_high is required")
        ELSE Emitted(<<[tag |-> "IntervalsT", Repeat |-> repeat,
                        OnDuration |-> on_seconds, OffDuration |-> off_seconds,
                        OnPower |-> IF on.is_range THEN None ELSE OptFmt4(on.low),
                        OffPower |-> IF off.is_range THEN None ELSE OptFmt4(off.low),
                        PowerOnLow |-> IF on.is_range THEN OptFmt4(on.low) ELSE None,
                        PowerOnHigh |-> IF on.is_range THEN OptFmt4(on.high) ELSE None,
                        PowerOffLow |-> IF off.is_range THEN OptFmt4(off.low) ELSE None,
                        PowerOffHigh |-> IF off.is_range THEN OptFmt4(off.high) ELSE None]>>)

\* lines 214-224
emit_textevent(block) ==
    IF ~Has(block, "message") \/ block.message = ""
    THEN Raised("textevent requires message")
    ELSE Emitted(<<[tag |-> "textevent",
                    timeoffset |-> IF Has(block, "time_offset") THEN block.time_offset ELSE 0,
                    message |-> block.message]>>)

RECURSIVE emit_block(_, _)
RECURSIVE emit_children(_, _)
RECURSIVE emit_times(_, _, _)

\* for child in block.get("blocks", []): emit_block(workout_el, child, ftp)
emit_children(children, ftp) ==
    IF children = <<>> THEN Emitted(<<>>)
    ELSE LET first == emit_block(Head(children), ftp)
         IN  IF first.err # "" THEN first
             ELSE LET rest == emit_children(Tail(children), ftp)
                  IN  IF rest.err # "" THEN rest ELSE Emitted(first.segs \o rest.segs)

\* emit_times making one pass whatever times is
emit_times_once(children, ftp, times) ==
    IF times <= 0 THEN Emitted(<<>>) ELSE emit_children(children, ftp)

\* for _ in range(times): the children, one pass after the other
emit_times(children, ftp, times) ==
    IF times <= 0 THEN Emitted(<<>>)
    ELSE LET pass == emit_children(children, ftp)
         IN  IF pass.err # "" THEN pass
             ELSE LET rest == emit_times(children, ftp, times - 1)
                  IN  IF rest.err # "" THEN rest ELSE Emitted(pass.segs \o rest.segs)

\* lines 109-116
emit_repeat(block, ftp) ==
    LET times == IF Has(block, "times") THEN block.times ELSE 0
    IN  IF times <= 0 THEN Raised("repeat.times must be > 0")
        ELSE emit_times(IF Has(block, "blocks") THEN block.blocks ELSE <<>>, ftp, times)

\* what emit_block appends to workout_el, or the PlanError it raises
emit_block(block, ftp) ==
    IF ~Has(block, "type") \/ block.type = "" THEN Raised("Block missing type")
    ELSE IF block.type = "standard_warmup" THEN Emitted(plan_standard_warmup)
    ELSE IF block.type = "repeat" THEN emit_repeat(block, ftp)
    ELSE IF block.type \in {"warmup", "cooldown", "ramp"} THEN emit_ramp(block, ftp)
    ELSE IF block.type = "steadystate" THEN emit_steadystate(block, ftp)
    ELSE IF block.type = "freeride" THEN emit_timed(block, "FreeRide", "freeride")
    ELSE IF block.type = "intervals" THEN emit_intervals(block, ftp)
    ELSE IF block.type = "maxeffort" THEN emit_timed(block, "MaxEffort", "maxeffort")
    ELSE IF block.type = "textevent" THEN emit_textevent(block)
    ELSE Raised("Unsupported block type: " \o block.type)

\* the children of <workout> that compile_plan builds, or its PlanError
compile_plan(p) ==
    IF p.name = "" THEN Raised("plan.name is required")
    ELSE emit_children(p.blocks, p.ftp)

\* ------------------------------------------------------------------------
\* The texts given to --text: up to MaxPhrases phrases joined by ", "
\* ------------------------------------------------------------------------

MaxPhrases == 2

RECURSIVE Str(_)
\* the decimal digits of n >= 0
Str(n) == IF n < 10 THEN <<DIGITS[n + 1]>> ELSE Str(n \div 10) \o <<DIGITS[(n % 10) + 1]>>

Ivl(n, m, d, p, q, u, rbi) ==
    [k |-> "ivl", n |-> n, m |-> m, d |-> d, p |-> p, q |-> q, u |-> u, rbi |-> rbi]

SetP(s, r, d, at, c, e) ==
    [k |-> "set", s |-> s, r |-> r, d |-> d, at |-> at, c |-> c, e |-> e]

\* In an interval phrase m and q are <<>> when no range is written and rbi is
\* <<>> when no rest is written
PhraseVocabulary ==
    { [k |-> "hour", n |-> 1],
      [k |-> "min", n |-> 30],
      [k |-> "minrange", a |-> 20, b |-> 30],
      [k |-> "cooldown", n |-> 0],
      [k |-> "cooldown", n |-> 2],
      [k |-> "tss", n |-> 60],
      [k |-> "tss", n |-> 80],
      [k |-> "ftp", n |-> 200],
      [k |-> "ftp", n |-> 250],
      [k |-> "zone", n |-> 2],
      [k |-> "cadence", n |-> 90],
      [k |-> "restcadence", n |-> 80],
      Ivl(6, None, 3, 105, Some(110), "%", Some(3)),
      Ivl(2, Some(4), 5, 105, None, "%", None),
      Ivl(3, None, 0, 95, None, "%", None),
      Ivl(1, None, 1, 0, Some(250), "%", None),
      Ivl(2, None, 5, 250, None, "w", None),
      Ivl(2, None, 5, 90, None, "", None),
      SetP(4, 3, 5, TRUE, 2, 5),
      SetP(2, 3, 5, TRUE, 10, 5),
      SetP(2, 1, 2, FALSE, 10, 0) }

UnitChars(u) == IF u = "%" THEN <<"%">> ELSE IF u = "w" THEN <<"w">> ELSE <<>>

RenderPhrase(p) ==
    CASE p.k = "hour"     -> Str(p.n) \o <<" ", "h", "o", "u", "r">>
      [] p.k = "min"      -> Str(p.n) \o <<" ", "m", "i", "n">>
      [] p.k = "minrange" -> Str(p.a) \o <<"-">> \o Str(p.b) \o <<" ", "m", "i", "n">>
      [] p.k = "cooldown" -> Str(p.n) \o <<" ", "m", "i", "n", " ", "c", "o", "o", "l", "d", "o", "w", "n">>
      [] p.k = "tss"      -> <<"t", "s", "s", " ">> \o Str(p.n)
      [] p.k = "ftp"      -> <<"f", "t", "p", " ">> \o Str(p.n)
      [] p.k = "zone"     -> <<"z">> \o Str(p.n)
      [] p.k = "cadence"  -> <<"c", "a", "d", "e", "n", "c", "e", " ">> \o Str(p.n)
      [] p.k = "restcadence" ->
            <<"r", "e", "s", "t", " ", "c", "a", "d", "e", "n", "c", "e", " ">> \o Str(p.n)
      [] p.k = "ivl"      ->
            Str(p.n)
            \o (IF p.m = None THEN <<>> ELSE <<"-">> \o Str(p.m[1]))
            \o <<"x">> \o Str(p.d) \o <<"'", " ", "@">> \o Str(p.p)
            \o (IF p.q = None THEN <<>> ELSE <<"-">> \o Str(p.q[1]))
            \o UnitChars(p.u)
            \o (IF p.rbi = None THEN <<>> ELSE <<" ">> \o Str(p.rbi[1]) \o <<"'", " ", "r", "b", "i">>)
      [] p.k = "set"      ->
            Str(p.s) \o <<"x", "[">> \o Str(p.r) \o <<"x">> \o Str(p.d) \o <<"'">>
            \o (IF p.at THEN <<" ", "@", "Z", "5">> ELSE <<>>)
            \o <<" ">> \o Str(p.c) \o <<"'", " ", "r", "b", "i", "]", " ">>
            \o Str(p.e) \o <<"'", " ", "r", "b", "s">>

RECURSIVE Render(_)
Render(ps) ==
    IF ps = <<>> THEN <<>>
    ELSE IF Len(ps) = 1 THEN RenderPhrase(ps[1])
    ELSE RenderPhrase(Head(ps)) \o <<",", " ">> \o Render(Tail(ps))

PhraseSeqs == UNION {[1..k -> PhraseVocabulary] : k \in 0..MaxPhrases}

\* ------------------------------------------------------------------------
\* The plans given to --plan: one root block, a leaf or a repeat block, or
\* a leaf followed by a repeat block
\* ------------------------------------------------------------------------

MaxTimes == 3

MaxChildren == 2

LeafVocabulary ==
    { [type |-> "steadystate", minutes |-> [n |-> 5, d |-> 1], power |-> [k |-> "zone", z |-> 2]],
      [type |-> "steadystate", minutes |-> [n |-> 1, d |-> 2], power |-> [k |-> "pct", v |-> 250]],
      [type |-> "steadystate", seconds |-> 90, power |-> [k |-> "watts", v |-> 250]],
      [type |-> "steadystate", minutes |-> [n |-> 5, d |-> 1], power |-> [k |-> "num", v |-> Ratio(0, 1)]],
      [type |-> "steadystate", minutes |-> [n |-> 0, d |-> 1], power |-> [k |-> "zone", z |-> 2]],
      [type |-> "steadystate", minutes |-> [n |-> -1, d |-> 1], seconds |-> 30, power |-> [k |-> "zone", z |-> 2]],
      [type |-> "steadystate", minutes |-> [n |-> 1, d |-> 250], seconds |-> 45, power |-> [k |-> "num", v |-> Ratio(3, 4)]],
      [type |-> "steadystate", minutes |-> [n |-> 5, d |-> 1], power |-> [k |-> "str"]],
      [type |-> "steadystate", minutes |-> [n |-> 5, d |-> 1]],
      [type |-> "warmup", minutes |-> [n |-> 10, d |-> 1], power |-> [k |-> "list", lo |-> <<[k |-> "pct", v |-> 50]>>, hi |-> <<[k |-> "pct", v |-> 75]>>]],
      [type |-> "cooldown", minutes |-> [n |-> 5, d |-> 1], power_low |-> Ratio(13, 20), power_high |-> Ratio(9, 20)],
      [type |-> "ramp", minutes |-> [n |-> 5, d |-> 1], power |-> [k |-> "zone", z |-> 3]],
      [type |-> "ramp", seconds |-> 0, power |-> [k |-> "list", lo |-> <<[k |-> "zone", z |-> 1]>>, hi |-> <<[k |-> "zone", z |-> 3]>>]],
      [type |-> "freeride", minutes |-> [n |-> 10, d |-> 1]],
      [type |-> "intervals", repeat |-> 3, on_minutes |-> [n |-> 1, d |-> 1], off_seconds |-> 30, on_power |-> [k |-> "list", lo |-> <<[k |-> "zone", z |-> 4]>>, hi |-> <<[k |-> "zone", z |-> 5]>>], off_power |-> [k |-> "pct", v |-> 50]],
      [type |-> "intervals", repeat |-> 2, on_seconds |-> 40, off_seconds |-> 20, on_power |-> [k |-> "pct", v |-> -5]],
      [type |-> "intervals", repeat |-> 0, on_minutes |-> [n |-> 1, d |-> 1], off_minutes |-> [n |-> 1, d |-> 1], on_power |-> [k |-> "zone", z |-> 5]],
      [type |-> "intervals", repeat |-> 2, on_minutes |-> [n |-> 1, d |-> 1], on_power |-> [k |-> "zone", z |-> 5]],
      [type |-> "maxeffort", seconds |-> 20],
      [type |-> "textevent", time_offset |-> 30, message |-> "go"],
      [type |-> "standard_warmup"],
      [type |-> "sprint", seconds |-> 10],
      [minutes |-> [n |-> 5, d |-> 1]] }

NestedRepeat ==
    [type |-> "repeat", times |-> 2,
     blocks |-> <<[type |-> "maxeffort", seconds |-> 20],
                  [type |-> "textevent", time_offset |-> 30, message |-> "go"]>>]

ChildVocabulary ==
    { [type |-> "steadystate", minutes |-> [n |-> 5, d |-> 1], power |-> [k |-> "zone", z |-> 2]],
      [type |-> "freeride", minutes |-> [n |-> 10, d |-> 1]],
      [type |-> "standard_warmup"],
      [type |-> "sprint", seconds |-> 10],
      NestedRepeat }

RepeatBlocks ==
    { [type |-> "repeat", times |-> t, blocks |-> c] :
        t \in 0..MaxTimes,
        c \in UNION {[1..k -> ChildVocabulary] : k \in 1..MaxChildren} }

LeadBlock == [type |-> "maxeffort", seconds |-> 20]

Plans ==
    { [name |-> "w", ftp |-> f, blocks |-> b] :
        f \in {None, Some(200)},
        b \in {<<x>> : x \in LeafVocabulary \cup RepeatBlocks}
              \cup {<<LeadBlock, r>> : r \in RepeatBlocks} }
    \cup { [name |-> "", ftp |-> None, blocks |-> <<LeadBlock>>] }

\* ------------------------------------------------------------------------
\* validate_zwo.py.  A document is [wellformed, elems]: elems are the
\* elements in document order, the root first, each [tag, attrs, parent]
\* with attrs the attribute names in their order and parent the index of
\* the parent element (0 for the root).  An error or a warning is a record
\* of what its message names.
\* ------------------------------------------------------------------------

\* the indexes of the entries of a list that hold key
Holding(entries, key) == {i \in 1..Len(entries) : Has(entries[i], key)}

\* the last entry of usage["elements"] with this tag
LastEntry(elements, tag) ==
    elements[CHOOSE i \in Holding(elements, "tag") :
                /\ elements[i].tag = tag
                /\ \A j \in Holding(elements, "tag") : elements[j].tag = tag => j <= i]

\* set(e.get("attributes") or [])
AttributesOf(e) ==
    IF Has(e, "attributes") THEN {e.attributes[i] : i \in 1..Len(e.attributes)} ELSE {}

\* allowed_tags, allowed_attrs_global, allowed_attrs_by_tag
load_schema(usage, desc) ==
    [allowed_tags |->
        {usage.elements[i].tag : i \in Holding(usage.elements, "tag")} \cup desc.elements,
     allowed_attrs_global |->
        {usage.attributes[i].attribute : i \in Holding(usage.attributes, "attribute")}
        \cup desc.attributes,
     allowed_attrs_by_tag |->
        [tag \in {usage.elements[i].tag : i \in Holding(usage.elements, "tag")} \ {""}
            |-> AttributesOf(LastEntry(usage.elements, tag))]]

ParseError == [kind |-> "XML parse error"]

RootTagError(tag) == [kind |-> "root tag", tag |-> tag]

MissingWorkout == [kind |-> "missing <workout> element"]

UnknownElement(tag) == [kind |-> "unknown element", tag |-> tag]

UnknownAttribute(attr, tag) == [kind |-> "unknown attribute", attr |-> attr, tag |-> tag]

NotListed(attr, tag) == [kind |-> "not listed", attr |-> attr, tag |-> tag]

Found(errors, warnings) == [errors |-> errors, warnings |-> warnings]

\* lines 64-69
RootChecks(elems) ==
    (IF elems[1].tag # "workout_file" THEN <<RootTagError(elems[1].tag)>> ELSE <<>>)
    \o (IF \E i \in 1..Len(elems) : elems[i].parent = 1 /\ elems[i].tag = "workout"
        THEN <<>> ELSE <<MissingWorkout>>)

\* allowed_attrs_by_tag.get(tag)
GetAttrs(allowed_attrs_by_tag, tag) ==
    IF tag \in DOMAIN allowed_attrs_by_tag THEN Some(allowed_attrs_by_tag[tag]) ELSE None

\* CheckAttr counting an attribute not listed for its tag as an error
CheckAttr_strict(attr, tag, allowed_attrs_global, allowed_attrs, warn_on_mismatch, acc) ==
    IF attr \notin allowed_attrs_global
    THEN Found(Append(acc.errors, UnknownAttribute(attr, tag)), acc.warnings)
    ELSE IF allowed_attrs # None /\ allowed_attrs[1] # {}
            /\ attr \notin allowed_attrs[1] /\ warn_on_mismatch
    THEN Found(Append(acc.errors, NotListed(attr, tag)), acc.warnings)
    ELSE acc

\* lines 78-85, for one attribute
CheckAttr(attr, tag, allowed_attrs_global, allowed_attrs, warn_on_mismatch, acc) ==
    IF attr \notin allowed_attrs_global
    THEN Found(Append(acc.errors, UnknownAttribute(attr, tag)), acc.warnings)
    ELSE IF allowed_attrs # None /\ allowed_attrs[1] # {}
            /\ attr \notin allowed_attrs[1] /\ warn_on_mismatch
    THEN Found(acc.errors, Append(acc.warnings, NotListed(attr, tag)))
    ELSE acc

RECURSIVE CheckAttrs(_, _, _, _, _, _)
\* for attr in elem.attrib.keys()
CheckAttrs(attrs, tag, allowed_attrs_global, allowed_attrs, warn_on_mismatch, acc) ==
    IF attrs = <<>> THEN acc
    ELSE CheckAttrs(Tail(attrs), tag, allowed_attrs_global, allowed_attrs, warn_on_mismatch,
                    CheckAttr(Head(attrs), tag, allowed_attrs_global, allowed_attrs,
                              warn_on_mismatch, acc))

\* CheckElement without the continue of line 74
CheckElement_no_continue(elem, allowed_tags, allowed_attrs_global, allowed_attrs_by_tag, warn_on_mismatch, acc) ==
    CheckAttrs(elem.attrs, elem.tag, allowed_attrs_global,
               GetAttrs(allowed_attrs_by_tag, elem.tag), warn_on_mismatch,
               IF elem.tag \notin allowed_tags
               THEN Found(Append(acc.errors, UnknownElement(elem.tag)), acc.warnings)
               ELSE acc)

\* lines 72-85, for one element
CheckElement(elem, allowed_tags, allowed_attrs_global, allowed_attrs_by_tag, warn_on_mismatch, acc) ==
    IF elem.tag \notin allowed_tags
    THEN Found(Append(acc.errors, UnknownElement(elem.tag)), acc.warnings)
    ELSE CheckAttrs(elem.attrs, elem.tag, allowed_attrs_global,
                    GetAttrs(allowed_attrs_by_tag, elem.tag), warn_on_mismatch, acc)

RECURSIVE CheckElements(_, _, _, _, _, _)
\* for elem in root.iter()
CheckElements(elems, allowed_tags, allowed_attrs_global, allowed_attrs_by_tag, warn_on_mismatch, acc) ==
    IF elems = <<>> THEN acc
    ELSE CheckElements(Tail(elems), allowed_tags, allowed_attrs_global, allowed_attrs_by_tag,
                       warn_on_mismatch,
                       CheckElement(Head(elems), allowed_tags, allowed_attrs_global,
                                    allowed_attrs_by_tag, warn_on_mismatch, acc))

\* (errors, warnings)
validate_file(document, allowed_tags, allowed_attrs_global, allowed_attrs_by_tag, warn_on_mismatch) ==
    IF ~document.wellformed THEN Found(<<ParseError>>, <<>>)
    ELSE CheckElements(document.elems, allowed_tags, allowed_attrs_global,
                       allowed_attrs_by_tag, warn_on_mismatch,
                       Found(RootChecks(document.elems), <<>>))

\* ------------------------------------------------------------------------
\* The documents given to --path and the catalogs given to --tag-attr-usage
\* and --descriptions: a root with up to MaxElements elements under it, each
\* a child of the root or of the element before it
\* ------------------------------------------------------------------------

MaxElements == 2

ElementVocabulary ==
    { [tag |-> "workout", attrs |-> <<>>],
      [tag |-> "SteadyState", attrs |-> <<"Duration", "Power">>],
      [tag |-> "SteadyState", attrs |-> <<"zap", "Duration">>],
      [tag |-> "bogus", attrs |-> <<"Duration", "zap">>],
      [tag |-> "bogus", attrs |-> <<>>] }

RootVocabulary ==
    { [tag |-> "workout_file", attrs |-> <<>>],
      [tag |-> "workout", attrs |-> <<>>],
      [tag |-> "bogus", attrs |-> <<"zap">>] }

Element(e, parent) == [tag |-> e.tag, attrs |-> e.attrs, parent |-> parent]

\* the root, then the elements under it: element i + 1 is a child of the
\* element before it where nested[i] and i > 1, of the root otherwise
DocumentOf(root, under, nested) ==
    [wellformed |-> TRUE,
     elems |-> <<Element(root, 0)>>
               \o [i \in 1..Len(under) |->
                     Element(under[i], IF nested[i] /\ i > 1 THEN i ELSE 1)]]

Malformed == [wellformed |-> FALSE, elems |-> <<>>]

Documents ==
    { DocumentOf(root, under, nested) :
        root \in RootVocabulary,
        under \in UNION {[1..k -> ElementVocabulary] : k \in 0..MaxElements},
        nested \in [1..MaxElements -> BOOLEAN] }
    \cup {Malformed}

Catalogs ==
    { [usage |-> [elements |-> << [tag |-> "workout_file"],
                                  [tag |-> "workout", attributes |-> <<>>],
                                  [tag |-> "SteadyState", attributes |-> <<"Duration">>],
                                  [attributes |-> <<"zap">>] >>,
                  attributes |-> << [attribute |-> "Duration"], [attribute |-> "Power"] >>],
       descriptions |-> [elements |-> {}, attributes |-> {}]],
      [usage |-> [elements |-> << [tag |-> "workout_file"],
                                  [tag |-> "SteadyState", attributes |-> <<"Duration">>],
                                  [tag |-> "SteadyState", attributes |-> <<>>] >>,
                  attributes |-> << [attribute |-> "Duration"], [name |-> "Power"] >>],
       descriptions |-> [elements |-> {"workout", "bogus"}, attributes |-> {"zap"}]],
      [usage |-> [elements |-> <<>>, attributes |-> <<>>],
       descriptions |-> [elements |-> {}, attributes |-> {}]] }

\* ------------------------------------------------------------------------
\* State
\* ------------------------------------------------------------------------

VARIABLES
    cmd,                \* "text": create_workout.py, "plan": compile_workout.py,
                        \* "validate": validate_zwo.py
    phrases,            \* the phrases the text was written from
    text,               \* args.text
    plan,               \* the loaded plan
    pc,                 \* "start", "parsed", "budgeted", "compiled", "loaded", "done",
                        \* "error"
    err,                \* the message of the exception raised, "" if none
    total_minutes, tss, cooldown_minutes, ftp, zone,
    interval_blocks, set_blocks,
    warmup, warmup_seconds,
    cooldown_first,     \* cooldown_seconds after line 243
    cooldown_seconds,   \* cooldown_seconds after line 261
    intervals_seconds, total_seconds,
    base_first,         \* base_seconds after line 258
    base_seconds,       \* base_seconds after line 261
    out,                \* the children of the <workout> element
    file,               \* what was written to output_path, None if nothing
    document,           \* the file at --path
    catalog,            \* the two catalog documents
    warn_on_mismatch,   \* --warn-mismatch
    allowed_tags, allowed_attrs_global, allowed_attrs_by_tag,
    errors, warnings    \* all_errors, all_warnings

parseVars == <<total_minutes, tss, cooldown_minutes, ftp, zone, interval_blocks, set_blocks>>

budgetVars == <<warmup, warmup_seconds, cooldown_first, cooldown_seconds,
                intervals_seconds, total_seconds, base_first, base_seconds>>

validateVars == <<document, catalog, warn_on_mismatch,
                  allowed_tags, allowed_attrs_global, allowed_attrs_by_tag,
                  errors, warnings>>

vars == <<cmd, phrases, text, plan, pc, err, parseVars, budgetVars, out, file, validateVars>>

NoPlan == [name |-> "", ftp |-> None, blocks |-> <<>>]

Blank ==
    /\ pc = "start"
    /\ err = ""
    /\ total_minutes = None /\ tss = None /\ cooldown_minutes = None
    /\ ftp = None /\ zone = None
    /\ interval_blocks = <<>> /\ set_blocks = <<>>
    /\ warmup = <<>> /\ warmup_seconds = 0
    /\ cooldown_first = 0 /\ cooldown_seconds = 0
    /\ intervals_seconds = 0 /\ total_seconds = None
    /\ base_first = 0 /\ base_seconds = 0
    /\ out = <<>>
    /\ file = None
    /\ allowed_tags = {} /\ allowed_attrs_global = {}
    /\ allowed_attrs_by_tag = [tag \in {} |-> {}]
    /\ errors = <<>> /\ warnings = <<>>

NoCatalog ==
    [usage |-> [elements |-> <<>>, attributes |-> <<>>],
     descriptions |-> [elements |-> {}, attributes |-> {}]]

\* nothing is given to validate
NoValidation == document = Malformed /\ catalog = NoCatalog /\ warn_on_mismatch = FALSE

InitText ==
    /\ cmd = "text"
    /\ phrases \in PhraseSeqs
    /\ text = Render(phrases)
    /\ plan = NoPlan
    /\ NoValidation
    /\ Blank

\* ------------------------------------------------------------------------
\* create_workout.py: build_workout, in three steps
\* ------------------------------------------------------------------------

\* lines 231-237; a ValueError of parse_intervals leaves build_workout
ParseText ==
    /\ cmd = "text" /\ pc = "start"
    /\ LET f == parse_ftp(text)
           r == parse_intervals(text, f)
       IN  /\ total_minutes' = parse_total_minutes(text)
           /\ tss' = parse_tss(text)
           /\ cooldown_minutes' = parse_cooldown_minutes(text)
           /\ ftp' = f
           /\ zone' = parse_zone(text)
           /\ interval_blocks' = r.interval_blocks
           /\ set_blocks' = r.set_blocks
           /\ err' = r.err
           /\ pc' = IF r.err = "" THEN "parsed" ELSE "error"
    /\ UNCHANGED <<cmd, phrases, text, plan, budgetVars, out, file, validateVars>>

\* resolve_budget without the retry at the cooldown floor
resolve_budget_no_retry(total, warmup_s, cooldown, intervals) ==
    IF total = None THEN [cooldown |-> cooldown, first |-> 0, base |-> 0, err |-> ""]
    ELSE [cooldown |-> cooldown,
          first |-> base_seconds_of(total[1], warmup_s, cooldown, intervals),
          base |-> base_seconds_of(total[1], warmup_s, cooldown, intervals),
          err |-> IF base_seconds_of(total[1], warmup_s, cooldown, intervals) < 0
                  THEN "Not enough time for warmup/intervals/cooldown" ELSE ""]

\* [cooldown, base, err] of lines 256-263
resolve_budget(total, warmup_s, cooldown, intervals) ==
    IF total = None THEN [cooldown |-> cooldown, first |-> 0, base |-> 0, err |-> ""]
    ELSE LET b1 == base_seconds_of(total[1], warmup_s, cooldown, intervals)
             c2 == IF b1 < 0 THEN MIN_COOLDOWN_SECONDS ELSE cooldown
             b2 == IF b1 < 0 THEN base_seconds_of(total[1], warmup_s, c2, intervals) ELSE b1
         IN  [cooldown |-> c2, first |-> b1, base |-> b2,
              err |-> IF b2 < 0 THEN "Not enough time for warmup/intervals/cooldown" ELSE ""]

\* lines 239-263
ResolveBudget ==
    /\ cmd = "text" /\ pc = "parsed"
    /\ LET w  == standard_warmup(total_minutes)
           ws == SumDurations(w)
           c1 == initial_cooldown_seconds(cooldown_minutes)
           iv == IntervalSeconds(interval_blocks) + SetSeconds(set_blocks)
           ts == total_seconds_of(total_minutes)
           r  == resolve_budget(ts, ws, c1, iv)
       IN  /\ warmup' = w
           /\ warmup_seconds' = ws
           /\ cooldown_first' = c1
           /\ intervals_seconds' = iv
           /\ total_seconds' = ts
           /\ base_first' = r.first
           /\ cooldown_seconds' = r.cooldown
           /\ base_seconds' = r.base
           /\ err' = r.err
           /\ pc' = IF r.err = "" THEN "budgeted" ELSE "error"
    /\ UNCHANGED <<cmd, phrases, text, plan, parseVars, out, file, validateVars>>

\* lines 265-345: the document is built, then written
EmitWorkout ==
    /\ cmd = "text" /\ pc = "budgeted"
    /\ out' = workout_segments(warmup, base_seconds,
                               base_power_of(zone, tss, total_seconds),
                               interval_blocks, set_blocks, cooldown_seconds)
    /\ file' = Some(out')
    /\ pc' = "done"
    /\ UNCHANGED <<cmd, phrases, text, plan, err, parseVars, budgetVars, validateVars>>

InitPlan ==
    /\ cmd = "plan"
    /\ plan \in Plans
    /\ phrases = <<>>
    /\ text = <<>>
    /\ NoValidation
    /\ Blank

\* ------------------------------------------------------------------------
\* compile_workout.py: main
\* ------------------------------------------------------------------------

\* CompilePlan writing the file as the segments are built
CompilePlan_writing ==
    /\ cmd = "plan" /\ pc = "start"
    /\ LET tree == compile_plan(plan)
       IN  /\ out' = tree.segs
           /\ file' = Some(tree.segs)
           /\ err' = tree.err
           /\ pc' = IF tree.err = "" THEN "compiled" ELSE "error"
    /\ UNCHANGED <<cmd, phrases, text, plan, parseVars, budgetVars, validateVars>>

\* line 271; a PlanError leaves main
CompilePlan ==
    /\ cmd = "plan" /\ pc = "start"
    /\ LET tree == compile_plan(plan)
       IN  /\ out' = tree.segs
           /\ err' = tree.err
           /\ pc' = IF tree.err = "" THEN "compiled" ELSE "error"
    /\ UNCHANGED <<cmd, phrases, text, plan, parseVars, budgetVars, file, validateVars>>

\* lines 273-279
WritePlan ==
    /\ cmd = "plan" /\ pc = "compiled"
    /\ file' = Some(out)
    /\ pc' = "done"
    /\ UNCHANGED <<cmd, phrases, text, plan, err, parseVars, budgetVars, out, validateVars>>

\* ------------------------------------------------------------------------
\* validate_zwo.py: main, for a --path that is one file
\* ------------------------------------------------------------------------

InitValidate ==
    /\ cmd = "validate"
    /\ document \in Documents
    /\ catalog \in Catalogs
    /\ warn_on_mismatch \in BOOLEAN
    /\ phrases = <<>>
    /\ text = <<>>
    /\ plan = NoPlan
    /\ Blank

\* lines 121-123
LoadSchema ==
    /\ cmd = "validate" /\ pc = "start"
    /\ allowed_tags' = load_schema(catalog.usage, catalog.descriptions).allowed_tags
    /\ allowed_attrs_global' = load_schema(catalog.usage, catalog.descriptions).allowed_attrs_global
    /\ allowed_attrs_by_tag' = load_schema(catalog.usage, catalog.descriptions).allowed_attrs_by_tag
    /\ pc' = "loaded"
    /\ UNCHANGED <<cmd, phrases, text, plan, err, parseVars, budgetVars, out, file,
                   document, catalog, warn_on_mismatch, errors, warnings>>

\* lines 125-152: the file is validated, then the errors or the warnings
\* are printed
ValidateFiles ==
    /\ cmd = "validate" /\ pc = "loaded"
    /\ LET found == validate_file(document, allowed_tags, allowed_attrs_global,
                                  allowed_attrs_by_tag, warn_on_mismatch)
       IN  /\ errors' = found.errors
           /\ warnings' = found.warnings
           /\ err' = IF found.errors # <<>> THEN "validation failed" ELSE ""
           /\ pc' = IF found.errors # <<>> THEN "error" ELSE "done"
    /\ UNCHANGED <<cmd, phrases, text, plan, parseVars, budgetVars, out, file,
                   document, catalog, warn_on_mismatch,
                   allowed_tags, allowed_attrs_global, allowed_attrs_by_tag>>

Init == InitText \/ InitPlan \/ InitValidate

Next ==
    \/ ParseText \/ ResolveBudget \/ EmitWorkout
    \/ CompilePlan \/ WritePlan
    \/ LoadSchema \/ ValidateFiles

Spec == Init /\ [][Next]_vars

\* ------------------------------------------------------------------------
\* Properties
\* ------------------------------------------------------------------------

\* ResolveBudget has run (lines 239-263 are behind build_workout)
Budgeted ==
    /\ cmd = "text"
    /\ \/ pc \in {"budgeted", "done"}
       \/ pc = "error" /\ err = "Not enough time for warmup/intervals/cooldown"

\* the standard warmup is the short one
Short == total_minutes # None /\ total_minutes[1] < 45

\* C1: with a known total, base = total - warmup - cooldown - intervals; if
\* that is negative the cooldown becomes 300 and base is computed once more;
\* build_workout fails with "Not enough time ..." exactly when base is still
\* negative, and otherwise goes on with base >= 0, which is what it emits.
C1_BudgetRetry ==
    (Budgeted /\ total_seconds # None) =>
        LET first  == total_seconds[1] - warmup_seconds - cooldown_first - intervals_seconds
            second == total_seconds[1] - warmup_seconds - 300 - intervals_seconds
        IN  /\ base_first = first
            /\ first >= 0 => /\ pc # "error"
                             /\ base_seconds = first
                             /\ cooldown_seconds = cooldown_first
            /\ first < 0 => /\ cooldown_seconds = 300
                            /\ base_seconds = second
                            /\ (pc = "error") <=> (second < 0)
            /\ pc # "error" => base_seconds >= 0
            /\ pc = "done" =>
                 /\ out[Len(out)] = cooldown_block(cooldown_seconds)
                 /\ base_seconds > 0 =>
                      out[6].tag = "SteadyState" /\ out[6].Duration = base_seconds

\* a workout written after the retry: the first base was negative
C1_RetrySucceeded ==
    /\ Budgeted /\ pc = "done" /\ total_seconds # None
    /\ base_first < 0 /\ base_seconds >= 0 /\ cooldown_first > 300

\* C2 as stated: the warmup the budget subtracts is 300s for a known total
\* under 45 minutes and 600s otherwise, so that total 3600s, cooldown 600s
\* and no intervals leave a base of 2400s.
C2_Warmup300Or600 ==
    Budgeted =>
        /\ warmup_seconds = IF Short THEN 300 ELSE 600
        /\ (total_seconds = Some(3600) /\ cooldown_first = 600 /\ intervals_seconds = 0)
              => base_seconds = 2400

\* C2, amended: the five warmup segments last 540s together for a known
\* total under 45 minutes and 840s otherwise (the Warmup ramp alone lasts
\* 300s or 600s, four segments of 60s follow), so that total 3600s, cooldown
\* 600s and no intervals leave a base of 2160s.
C2_Warmup540Or840 ==
    Budgeted =>
        /\ Len(warmup) = 5
        /\ warmup[1].tag = "Warmup"
        /\ warmup[1].Duration = IF Short THEN 300 ELSE 600
        /\ \A i \in 2..5 : warmup[i].Duration = 60
        /\ warmup_seconds = IF Short THEN 540 ELSE 840
        /\ (total_seconds = Some(3600) /\ cooldown_first = 600 /\ intervals_seconds = 0)
              => base_seconds = 2160

\* one hour, the default cooldown, no intervals
C2_HourWorkout ==
    /\ Budgeted /\ pc = "done"
    /\ total_seconds = Some(3600) /\ cooldown_first = 600 /\ intervals_seconds = 0
    /\ base_seconds = 2160

\* the cooldown phrases of the text, in order
CooldownPhrases == SelectSeq(phrases, LAMBDA p : p.k = "cooldown")

\* C3: before the budget check the cooldown is the stated minutes times 60
\* when the text holds a cooldown phrase (a stated 0 included) and 600
\* otherwise, raised to at least 300; the Cooldown segment written never
\* lasts less than 300s.
C3_CooldownStatedOrDefault ==
    Budgeted =>
        /\ cooldown_first =
              Max(300, IF CooldownPhrases # <<>> THEN CooldownPhrases[1].n * 60 ELSE 600)
        /\ pc = "done" =>
              out[Len(out)].tag = "Cooldown" /\ out[Len(out)].Duration >= 300

\* the segments the interval and set blocks give
IntervalSegments ==
    Len(interval_blocks)
    + (IF set_blocks = <<>> THEN 0 ELSE 2 * set_blocks[1].repeat)

\* C4: when no total duration is read from the text, build_workout never
\* fails with "Not enough time ...", and what it writes has no base
\* SteadyState segment: the warmup's five segments, the interval and set
\* segments, the cooldown.
C4_UnknownTotal ==
    (cmd = "text" /\ pc # "start" /\ total_minutes = None) =>
        /\ err # "Not enough time for warmup/intervals/cooldown"
        /\ pc \in {"budgeted", "done"} => base_seconds = 0
        /\ pc = "done" =>
              /\ Len(out) = 5 + IntervalSegments + 1
              /\ out[6].tag # "SteadyState"

\* no total, and intervals longer than any default budget
C4_LongIntervalsNoTotal ==
    /\ cmd = "text" /\ pc = "done" /\ total_minutes = None
    /\ intervals_seconds > 3600

\* C5: every segment written, by either compiler, lasts a positive time,
\* text events apart: Duration > 0, and OnDuration > 0 and OffDuration > 0
\* for IntervalsT.
C5_PositiveDurations ==
    pc = "done" =>
        \A i \in 1..Len(out) :
            CASE out[i].tag = "textevent" -> TRUE
              [] out[i].tag = "IntervalsT" -> out[i].OnDuration > 0 /\ out[i].OffDuration > 0
              [] OTHER -> out[i].Duration > 0

\* the power values written to one segment, in ten-thousandths
PowerValues(seg) ==
    CASE seg.tag \in {"Warmup", "Cooldown", "Ramp"} -> {seg.PowerLow, seg.PowerHigh}
      [] seg.tag = "SteadyState" -> {seg.Power}
      [] seg.tag = "IntervalsT" ->
            UNION {IF seg[key] = None THEN {} ELSE {seg[key][1]} :
                     key \in {"OnPower", "OffPower", "PowerOnLow", "PowerOnHigh",
                              "PowerOffLow", "PowerOffHigh"}}
      [] OTHER -> {}

WrittenPowers == UNION {PowerValues(out[i]) : i \in 1..Len(out)}

RECURSIVE FiguresOfPower(_, _)
\* the ratios that the pct, watts and bare-number figures of a plan's power
\* convert to: pct/100, watts/threshold, the number
FiguresOfPower(value, threshold) ==
    IF value = None THEN {}
    ELSE CASE value[1].k = "pct" -> {Ratio(value[1].v, 100)}
           [] value[1].k = "watts" ->
                IF threshold = None \/ threshold[1] = 0 THEN {}
                ELSE {Ratio(value[1].v, threshold[1])}
           [] value[1].k = "num" -> {value[1].v}
           [] value[1].k = "list" ->
                FiguresOfPower(value[1].lo, threshold) \cup FiguresOfPower(value[1].hi, threshold)
           [] OTHER -> {}

RECURSIVE FiguresOfBlocks(_, _)
FiguresOfBlocks(blocks, threshold) ==
    UNION { IF Has(blocks[i], "blocks") THEN FiguresOfBlocks(blocks[i].blocks, threshold)
            ELSE UNION {FiguresOfPower(GetPower(blocks[i], key), threshold) :
                          key \in {"power", "on_power", "off_power"}}
                 \cup {blocks[i][key] : key \in {"power_low", "power_high"} \cap DOMAIN blocks[i]}
            : i \in 1..Len(blocks) }

\* the ratios that the % and watt figures of an interval phrase convert to
FiguresOfPhrase(p) ==
    IF p.k # "ivl" THEN {}
    ELSE IF p.u = "%"
    THEN {Ratio(p.p, 100)} \cup (IF p.q = None THEN {} ELSE {Ratio(p.q[1], 100)})
    ELSE IF p.u = "w" /\ ftp # None /\ ftp[1].n # 0
    THEN {Ratio(p.p * ftp[1].d, ftp[1].n)}
         \cup (IF p.q = None THEN {} ELSE {Ratio(p.q[1] * ftp[1].d, ftp[1].n)})
    ELSE {}

\* what the figures the user gave are written as
WrittenFigures ==
    {Fmt4(x) : x \in FiguresOfBlocks(plan.blocks, plan.ftp)
                     \cup UNION {FiguresOfPhrase(phrases[i]) : i \in 1..Len(phrases)}}

\* C6 as stated: every power value written, whatever it was resolved from,
\* is a ratio greater than 0 and at most 2.0.
C6_PowersWithinRange ==
    pc = "done" => \A v \in WrittenPowers : 0 < v /\ v <= 20000

\* C6, amended: a power value is written as its figure converts, with no
\* clamping; it is greater than 0 and at most 2.0 unless it is the
\* conversion (pct/100, watts/threshold, the bare number, the % or watt
\* figure of a free-text interval) of a figure the user gave, which is
\* written as it is, in or out of that range.
C6_PowersAsGiven ==
    pc = "done" =>
        \A v \in WrittenPowers : (0 < v /\ v <= 20000) \/ v \in WrittenFigures

\* a figure of 250 percent, written as 2.5000
C6_FigureAboveTwo ==
    /\ pc = "done"
    /\ 25000 \in WrittenPowers

IsRepeat(block) == Has(block, "type") /\ block.type = "repeat"

\* a block that gives one segment
IsLeaf(block) ==
    Has(block, "type")
    /\ block.type \in {"warmup", "cooldown", "ramp", "steadystate", "freeride",
                       "intervals", "maxeffort", "textevent"}

RECURSIVE Repeated(_, _)
\* segs, n times in a row
Repeated(segs, n) == IF n <= 0 THEN <<>> ELSE segs \o Repeated(segs, n - 1)

RECURSIVE Expansion(_, _)
RECURSIVE ExpandAll(_, _)
\* the segments of the blocks, in their order
ExpandAll(blocks, threshold) ==
    IF blocks = <<>> THEN <<>>
    ELSE Expansion(Head(blocks), threshold) \o ExpandAll(Tail(blocks), threshold)

\* a repeat block is its children's segments, times times in a row
Expansion(block, threshold) ==
    IF IsRepeat(block) THEN Repeated(ExpandAll(block.blocks, threshold), block.times)
    ELSE emit_block(block, threshold).segs

\* the segments that root block i appended to out
Appended(i) ==
    SubSeq(out,
           Len(ExpandAll(SubSeq(plan.blocks, 1, i - 1), plan.ftp)) + 1,
           Len(out) - Len(ExpandAll(SubSeq(plan.blocks, i + 1, Len(plan.blocks)), plan.ftp)))

\* C7: in a compiled plan a repeat block with times = n gives its children's
\* segments in their order, n times in a row, nothing in between, nested
\* repeat blocks expanded the same way; k leaf children give n*k segments,
\* the j-th of each pass being the j-th child's.
C7_RepeatUnrolled ==
    (cmd = "plan" /\ pc \in {"compiled", "done"}) =>
        \A i \in 1..Len(plan.blocks) :
            IsRepeat(plan.blocks[i]) =>
                LET n        == plan.blocks[i].times
                    children == plan.blocks[i].blocks
                    k        == Len(children)
                IN  /\ n >= 1
                    /\ Appended(i) = Expansion(plan.blocks[i], plan.ftp)
                    /\ (\A j \in 1..k : IsLeaf(children[j])) =>
                          /\ Len(Appended(i)) = n * k
                          /\ \A pass \in 0..(n - 1) : \A j \in 1..k :
                                <<Appended(i)[pass * k + j]>> = emit_block(children[j], plan.ftp).segs

\* times = 3 around two leaf children: six segments
C7_ThreeTimesTwo ==
    /\ cmd = "plan" /\ pc = "done"
    /\ Len(plan.blocks) = 1 /\ IsRepeat(plan.blocks[1])
    /\ plan.blocks[1].times = 3
    /\ Len(plan.blocks[1].blocks) = 2
    /\ \A j \in 1..2 : IsLeaf(plan.blocks[1].blocks[j])
    /\ plan.blocks[1].blocks[1] # plan.blocks[1].blocks[2]
    /\ Len(out) = 6

\* the interval phrases and the set phrases of the text, in order
IntervalPhrases == SelectSeq(phrases, LAMBDA p : p.k = "ivl")

SetPhrases == SelectSeq(phrases, LAMBDA p : p.k = "set")

\* parse_intervals returned
Parsed == cmd = "text" /\ pc # "start" /\ err \in {"", "Not enough time for warmup/intervals/cooldown"}

\* block is what the phrase N[-M]xD' @P[-Q]% gives
BlockOfPhrase(block, p) ==
    /\ block.repeat = (IF p.m = None THEN p.n ELSE p.m[1])
    /\ block.on_seconds = p.d * 60
    /\ block.off_seconds = p.d * 60
    /\ block.on_power_low # None /\ RatioEq(block.on_power_low[1], Ratio(p.p, 100))
    /\ block.on_power_high # None
    /\ RatioEq(block.on_power_high[1], Ratio(IF p.q = None THEN p.p ELSE p.q[1], 100))
    /\ block.off_power # None /\ RatioEq(block.off_power[1], Ratio(1, 2))

\* C8: in a text without a set form, each simple interval N[-M]xD' @P[-Q]%
\* gives one interval block, in text order, with repeat M (N if no range),
\* on = off = D*60 seconds, on-power-low P/100, on-power-high Q/100 (P/100
\* if no Q) and off-power 0.5; parse_intervals does not fail on a text whose
\* intervals are all of this form.
C8_SimpleIntervals ==
    (cmd = "text" /\ pc # "start" /\ SetPhrases = <<>>) =>
        /\ (\A j \in 1..Len(IntervalPhrases) : IntervalPhrases[j].u = "%") => Parsed
        /\ Parsed =>
              /\ set_blocks = <<>>
              /\ Len(interval_blocks) = Len(IntervalPhrases)
              /\ \A j \in 1..Len(IntervalPhrases) :
                    IntervalPhrases[j].u = "%" =>
                        BlockOfPhrase(interval_blocks[j], IntervalPhrases[j])

\* "6x3' @105-110% 3' rbi": repeat 6, 180s on and off, 1.05 to 1.10, off 0.5
C8_SixByThree ==
    /\ cmd = "text" /\ pc = "done"
    /\ phrases = <<Ivl(6, None, 3, 105, Some(110), "%", Some(3))>>
    /\ Len(interval_blocks) = 1
    /\ interval_blocks[1].repeat = 6
    /\ interval_blocks[1].on_seconds = 180 /\ interval_blocks[1].off_seconds = 180
    /\ Fmt4(interval_blocks[1].on_power_low[1]) = 10500
    /\ Fmt4(interval_blocks[1].on_power_high[1]) = 11000
    /\ Fmt4(interval_blocks[1].off_power[1]) = 5000

\* the IntervalsT segment and the rest segment of one pass of a set phrase
SetPair(p) ==
    << [tag |-> "IntervalsT", Repeat |-> p.r, OnDuration |-> p.d * 60,
        OffDuration |-> p.c * 60, OnPower |-> Some(10500), OffPower |-> Some(5000)],
       [tag |-> "SteadyState", Duration |-> p.e * 60, Power |-> 5000] >>

\* seg is the IntervalsT segment want, whatever else it carries
SameIntervals(seg, want) ==
    /\ seg.tag = want.tag /\ seg.Repeat = want.Repeat
    /\ seg.OnDuration = want.OnDuration /\ seg.OffDuration = want.OffDuration
    /\ seg.OnPower = want.OnPower /\ seg.OffPower = want.OffPower

\* C9: a text holding the set form Sx[RxD' @... C' rbi] E' rbs gives one set
\* block and no interval blocks, and the workout written holds S pairs in a
\* row before the cooldown: IntervalsT (Repeat R, OnDuration D*60,
\* OffDuration C*60, OnPower 1.05, OffPower 0.5), then a SteadyState of E*60
\* seconds at 0.5.
C9_SetForm ==
    (cmd = "text" /\ pc # "start" /\ SetPhrases # <<>>) =>
        /\ Parsed
        /\ interval_blocks = <<>>
        /\ Len(set_blocks) = 1
        /\ pc = "done" =>
              LET p     == SetPhrases[1]
                  first == Len(out) - 2 * p.s
              IN  /\ first >= 6
                  /\ \A pass \in 0..(p.s - 1) :
                        /\ SameIntervals(out[first + 2 * pass], SetPair(p)[1])
                        /\ out[first + 2 * pass + 1] = SetPair(p)[2]

\* the phrases that state a time in minutes or hours
DurationPhrases ==
    SelectSeq(phrases, LAMBDA p : p.k \in {"hour", "min", "minrange", "cooldown"})

\* C10: a text whose only duration phrase is a range "A-B min" has B as its
\* total minutes.
C10_RangeUpperBound ==
    (cmd = "text" /\ pc # "start"
       /\ Len(DurationPhrases) = 1 /\ DurationPhrases[1].k = "minrange") =>
        total_minutes = Some(DurationPhrases[1].b)

\* what the last phrase of one kind states, None if the text has none
LastOf(kind) ==
    IF SelectSeq(phrases, LAMBDA p : p.k = kind) = <<>> THEN None
    ELSE Some(Last(SelectSeq(phrases, LAMBDA p : p.k = kind)).n)

\* the minutes that the last match of \b<number> min\b states: a minute
\* phrase, the upper bound of a minute range, the minutes of a cooldown
LastSingleMinutes ==
    IF SelectSeq(phrases, LAMBDA p : p.k \in {"min", "minrange", "cooldown"}) = <<>> THEN 0
    ELSE IF Last(SelectSeq(phrases, LAMBDA p : p.k \in {"min", "minrange", "cooldown"})).k = "minrange"
    THEN Last(SelectSeq(phrases, LAMBDA p : p.k \in {"min", "minrange", "cooldown"})).b
    ELSE Last(SelectSeq(phrases, LAMBDA p : p.k \in {"min", "minrange", "cooldown"})).n

LastRangeMinutes ==
    IF SelectSeq(phrases, LAMBDA p : p.k = "minrange") = <<>> THEN 0
    ELSE Last(SelectSeq(phrases, LAMBDA p : p.k = "minrange")).b

LastHours == IF LastOf("hour") = None THEN 0 ELSE LastOf("hour")[1]

\* in each duration category the last match is the one that counts
C11_DurationsLastMatch ==
    (cmd = "text" /\ pc # "start") =>
        total_minutes = OrNone(LastRangeMinutes + LastSingleMinutes + 60 * LastHours)

\* a float read from the digits of n
Whole(v) == IF v = None THEN None ELSE Some([n |-> v[1], d |-> 1])

\* C11: of several matches of one scalar extraction in a text (the
\* training-stress number, the cooldown minutes, the threshold, each
\* category of duration phrase) the last one gives the value returned.
C11_LastMatchWins ==
    (cmd = "text" /\ pc # "start") =>
        /\ tss = Whole(LastOf("tss"))
        /\ ftp = Whole(LastOf("ftp"))
        /\ cooldown_minutes = LastOf("cooldown")
        /\ total_minutes = OrNone(LastRangeMinutes + LastSingleMinutes + 60 * LastHours)

\* validate_file has returned for a well-formed document
Validated == cmd = "validate" /\ pc \in {"done", "error"} /\ document.wellformed

\* the elements whose tag is not allowed, in document order
UnknownElements == SelectSeq(document.elems, LAMBDA e : e.tag \notin allowed_tags)

\* the attributes of the elements with an allowed tag that are not in the
\* global set: <<element, attribute>> indexes
UnknownAttributes ==
    {<<i, j>> \in (1..Len(document.elems)) \X (1..3) :
        /\ document.elems[i].tag \in allowed_tags
        /\ j <= Len(document.elems[i].attrs)
        /\ document.elems[i].attrs[j] \notin allowed_attrs_global}

\* C12: for a well-formed document validate_file reports one "unknown
\* element" error for each element whose tag is not allowed, in document
\* order, and no "unknown attribute" error and no warning for an attribute
\* of such an element.
C12_UnknownElements ==
    Validated =>
        /\ Len(SelectSeq(errors, LAMBDA e : e.kind = "unknown element")) = Len(UnknownElements)
        /\ \A k \in 1..Len(UnknownElements) :
              SelectSeq(errors, LAMBDA e : e.kind = "unknown element")[k]
                 = UnknownElement(UnknownElements[k].tag)
        /\ \A k \in 1..Len(errors) :
              errors[k].kind = "unknown attribute" => errors[k].tag \in allowed_tags
        /\ \A k \in 1..Len(warnings) : warnings[k].tag \in allowed_tags
        /\ Len(SelectSeq(errors, LAMBDA e : e.kind = "unknown attribute"))
              = Cardinality(UnknownAttributes)

\* an element with a tag that is not allowed carries an attribute that is
\* not allowed either, and the same unknown tag occurs twice
C12_UnknownTagWithAttributes ==
    /\ Validated
    /\ warn_on_mismatch
    /\ Len(UnknownElements) = 2
    /\ UnknownElements[1].tag = UnknownElements[2].tag
    /\ \E k \in 1..2 : \E j \in 1..Len(UnknownElements[k].attrs) :
          UnknownElements[k].attrs[j] \notin allowed_attrs_global
    /\ allowed_tags # {}

\* every tag of the document is allowed and every attribute name is in the
\* global set
AllAllowed ==
    \A i \in 1..Len(document.elems) :
        /\ document.elems[i].tag \in allowed_tags
        /\ \A j \in 1..Len(document.elems[i].attrs) :
              document.elems[i].attrs[j] \in allowed_attrs_global

\* C13 as stated: a well-formed document with every tag allowed and every
\* attribute name in the global set has no errors, with warn_on_mismatch
\* and without.
C13_AllAllowedNoErrors ==
    (Validated /\ AllAllowed) => errors = <<>>

\* the root is workout_file and has a workout child
Rooted ==
    /\ document.elems[1].tag = "workout_file"
    /\ \E i \in 1..Len(document.elems) :
          document.elems[i].parent = 1 /\ document.elems[i].tag = "workout"

\* C13, amended: a well-formed document whose root is workout_file with a
\* workout child, with every tag allowed and every attribute name in the
\* global set, has no errors, with warn_on_mismatch and without; without
\* that root or that child it has the root errors and no others.
C13_RootedAllAllowedNoErrors ==
    (Validated /\ AllAllowed) =>
        /\ errors = RootChecks(document.elems)
        /\ Rooted => errors = <<>> /\ pc = "done"
        /\ ~warn_on_mismatch => warnings = <<>>

\* no errors in warn mode, and a warning for an attribute not listed for
\* its tag
C13_WarningOnly ==
    /\ Validated /\ AllAllowed /\ Rooted
    /\ warn_on_mismatch
    /\ errors = <<>>
    /\ warnings # <<>>

\* C14: in both compile commands a compile that fails (a missing field, an
\* unsupported block type, watts without a threshold, an interval unit that
\* cannot be determined, not enough time) writes no file: the file is
\* written only once the whole document is built, and holds all of it.
C14_NoFileOnFailure ==
    cmd \in {"text", "plan"} =>
        /\ pc = "error" => err # "" /\ file = None
        /\ file # None => pc = "done" /\ err = "" /\ file = Some(out)
        /\ pc # "done" => file = None

\* the budget check, the last step that can fail, has failed
C14_BudgetFailure ==
    /\ cmd = "text" /\ pc = "error"
    /\ err = "Not enough time for warmup/intervals/cooldown"
    /\ interval_blocks # <<>>
    /\ file = None

\* the IntervalsT segment written for interval block j
IntervalSegment(j) == out[5 + (IF base_seconds > 0 THEN 1 ELSE 0) + j]

\* C15: in the simple interval form, when the low and the high on-power are
\* equal (no range, or P = Q) the IntervalsT written carries OnPower and
\* neither PowerOnLow nor PowerOnHigh; when they differ it carries
\* PowerOnLow and PowerOnHigh and no OnPower.
C15_SinglePowerOrRange ==
    (cmd = "text" /\ pc = "done" /\ SetPhrases = <<>>) =>
        \A j \in 1..Len(IntervalPhrases) :
            /\ IntervalSegment(j).tag = "IntervalsT"
            /\ IF IntervalPhrases[j].q = None \/ IntervalPhrases[j].q = Some(IntervalPhrases[j].p)
               THEN /\ IntervalSegment(j).OnPower # None
                    /\ IntervalSegment(j).PowerOnLow = None
                    /\ IntervalSegment(j).PowerOnHigh = None
               ELSE /\ IntervalSegment(j).OnPower = None
                    /\ IntervalSegment(j).PowerOnLow # None
                    /\ IntervalSegment(j).PowerOnHigh # None

\* the time one segment lasts
SegmentSeconds(seg) ==
    CASE seg.tag = "IntervalsT" -> seg.Repeat * (seg.OnDuration + seg.OffDuration)
      [] seg.tag = "textevent" -> 0
      [] OTHER -> seg.Duration

RECURSIVE SumSeconds(_)
SumSeconds(segs) ==
    IF segs = <<>> THEN 0 ELSE SegmentSeconds(Head(segs)) + SumSeconds(Tail(segs))

\* C16: when build_workout succeeds with a known total, the segments it
\* writes (the five of the warmup, the base SteadyState if any, Repeat *
\* (OnDuration + OffDuration) of every IntervalsT, every rest between sets,
\* the Cooldown) last total minutes * 60 seconds together, on the first
\* budget attempt and after the retry.
C16_DurationsSumToTotal ==
    (cmd = "text" /\ pc = "done" /\ total_minutes # None) =>
        /\ SumSeconds(out) = total_minutes[1] * 60
        /\ SumSeconds(out)
              = warmup_seconds + base_seconds + intervals_seconds + cooldown_seconds

\* a set form within a known total, a base segment left over
C16_SetsWithinTotal ==
    /\ cmd = "text" /\ pc = "done" /\ total_minutes # None
    /\ set_blocks # <<>>
    /\ base_seconds > 0
    /\ SumSeconds(out) = total_minutes[1] * 60

====
